---- MODULE Spec2Model ----
(***************************************************************************)
(* Lyrics-to-slides pipeline: the text cleaner, the layout table, the      *)
(* section / column splitters, the background-image cache, the slide       *)
(* builders of the CLI generator (create_lyrics_pptx.py) and of the web    *)
(* backend (webapp/backend/main.py), and the extraction script's main      *)
(* loop (extract_lyrics.py).                                               *)
(*                                                                         *)
(* A Python str is a sequence of Unicode code points (44 is ',', 46 is     *)
(* '.', 32 is ' ', 9 is TAB, 97.. are 'a'.., 1488 is HEBREW LETTER ALEF).  *)
(* An Optional value is a sequence of length 0 (None) or 1.                *)
(***************************************************************************)
EXTENDS Integers, Sequences, FiniteSets, TLC

VARIABLES
    \* --- clean_punctuation called on a text, then on its own result
    cp_impl, cp_text, cp_once, cp_twice,
    \* --- get_optimal_layout called on a line list: the results of the CLI
    \*     generator's calls and of the web backend's calls, in call order
    lo_lines, lo_cli, lo_web,
    \* --- a line list split into sections and the sections coloured
    se_impl, se_lines, se_sections, se_colored,
    \* --- a list of coloured lines split into co_k columns by
    \*     split_into_columns and by generate_pptx's inline split
    co_lines, co_k, co_cli, co_web,
    \* --- download_background_image called again and again by one program:
    \*     the files of its cache directory, the last call, and per seed the
    \*     number of downloads written and the values returned from the cache
    dl_impl, dl_files, dl_last, dl_written, dl_returned, dl_calls,
    \* --- create_lyrics_pptx.py main: the lyrics directory, the sorted file
    \*     list, the loop index, the presentation's slides, the image cache
    \*     and what the last loop iteration did
    cm_pc, cm_dir, cm_lyrics_files, cm_idx, cm_slides, cm_cache, cm_last,
    \* --- webapp/backend/main.py /generate: hash(title) % 1000 of this
    \*     process, the cache directory, the requests served and the last one
    wb_pc, wb_hash, wb_cache, wb_count, wb_last,
    \* --- extract_lyrics.py main: the songs of the table, the loop index,
    \*     the lyrics directory (file name -> content), each processed
    \*     song's outcome, the URLs navigated to, and the browser; what
    \*     extract_lyrics returned for each processed song; the number of
    \*     this run of the script and how the run before it ended
    ex_pc, ex_songs, ex_i, ex_fs, ex_outcomes, ex_visited, ex_browser,
    ex_lyrics, ex_run, ex_prev,
    \* --- parse_lyrics_file called on a lyrics file: the file's stem and
    \*     content, and the (title, lyrics_lines) returned
    pa_stem, pa_content, pa_result

varsClean == <<cp_impl, cp_text, cp_once, cp_twice>>
varsLayout == <<lo_lines, lo_cli, lo_web>>
varsSections == <<se_impl, se_lines, se_sections, se_colored>>
varsColumns == <<co_lines, co_k, co_cli, co_web>>
varsDownload == <<dl_impl, dl_files, dl_last, dl_written, dl_returned, dl_calls>>

varsCli == <<cm_pc, cm_dir, cm_lyrics_files, cm_idx, cm_slides, cm_cache, cm_last>>
varsWeb == <<wb_pc, wb_hash, wb_cache, wb_count, wb_last>>

varsExtract ==
    <<ex_pc, ex_songs, ex_i, ex_fs, ex_outcomes, ex_visited, ex_browser,
      ex_lyrics, ex_run, ex_prev>>

varsParse == <<pa_stem, pa_content, pa_result>>

vars == <<varsClean, varsLayout, varsSections, varsColumns, varsDownload,
          varsCli, varsWeb, varsExtract, varsParse>>

\* what each specification leaves alone
FrameClean == UNCHANGED <<varsLayout, varsSections, varsColumns, varsDownload,
    varsCli, varsWeb, varsExtract, varsParse>>
FrameLayout == UNCHANGED <<varsClean, varsSections, varsColumns, varsDownload,
    varsCli, varsWeb, varsExtract, varsParse>>
FrameSections == UNCHANGED <<varsClean, varsLayout, varsColumns, varsDownload,
    varsCli, varsWeb, varsExtract, varsParse>>
FrameColumns == UNCHANGED <<varsClean, varsLayout, varsSections, varsDownload,
    varsCli, varsWeb, varsExtract, varsParse>>
FrameSlides ==
    UNCHANGED <<varsClean, varsLayout, varsSections, varsColumns, varsDownload,
                varsExtract, varsParse>>
FrameExtract ==
    UNCHANGED <<varsClean, varsLayout, varsSections, varsColumns, varsDownload,
                varsCli, varsWeb, varsParse>>
FrameDownload == UNCHANGED <<varsClean, varsLayout, varsSections, varsColumns,
    varsCli, varsWeb, varsExtract, varsParse>>

FrameParse == UNCHANGED <<varsClean, varsLayout, varsSections, varsColumns,
    varsDownload, varsCli, varsWeb, varsExtract>>

None == <<>>
Some(x) == <<x>>

Impls == {"cli", "web"}

(***************************************************************************)
(* Python built-ins used by the code.                                      *)
(***************************************************************************)

\* str.replace(old, new) for a non-empty old: every non-overlapping
\* occurrence, scanning from the left.
RECURSIVE str_replace(_, _, _)
str_replace(s, old, new) ==
    IF Len(s) < Len(old) THEN s
    ELSE IF SubSeq(s, 1, Len(old)) = old
         THEN new \o str_replace(SubSeq(s, Len(old) + 1, Len(s)), old, new)
         ELSE <<Head(s)>> \o str_replace(Tail(s), old, new)

\* str.replace(old, new, 1): the first occurrence only.
RECURSIVE str_replace_first(_, _, _)
str_replace_first(s, old, new) ==
    IF Len(s) < Len(old) THEN s
    ELSE IF SubSeq(s, 1, Len(old)) = old
         THEN new \o SubSeq(s, Len(old) + 1, Len(s))
         ELSE <<Head(s)>> \o str_replace_first(Tail(s), old, new)

\* The code points str.isspace() accepts (what str.strip() removes).
IsSpace(c) ==
    c \in (9..13) \cup (28..32) \cup {133, 160, 5760} \cup (8192..8202)
          \cup {8232, 8233, 8239, 8287, 12288}

\* str.strip(): leading and trailing whitespace removed.
RECURSIVE lstrip(_)
lstrip(s) == IF s # <<>> /\ IsSpace(Head(s)) THEN lstrip(Tail(s)) ELSE s

RECURSIVE rstrip(_)
rstrip(s) ==
    IF s # <<>> /\ IsSpace(s[Len(s)]) THEN rstrip(SubSeq(s, 1, Len(s) - 1)) ELSE s

strip(s) == rstrip(lstrip(s))

Min(a, b) == IF a <= b THEN a ELSE b

\* s[start:end] for 0 <= start, 0 <= end: both are clipped to len(s).
PySlice(s, start, end) == SubSeq(s, Min(start, Len(s)) + 1, Min(end, Len(s)))

\* str.split(sep) for a one-character sep: the pieces between separators
\* (an empty str gives one empty piece).
RECURSIVE str_split(_, _, _)
str_split(s, sep, piece) ==
    IF s = <<>> THEN <<piece>>
    ELSE IF Head(s) = sep
         THEN <<piece>> \o str_split(Tail(s), sep, <<>>)
         ELSE str_split(Tail(s), sep, Append(piece, Head(s)))

\* a < b for two str: the first differing code point decides, a proper
\* prefix is smaller
RECURSIVE StrLess(_, _)
StrLess(a, b) ==
    IF b = <<>> THEN FALSE
    ELSE IF a = <<>> THEN TRUE
    ELSE IF Head(a) # Head(b) THEN Head(a) < Head(b)
    ELSE StrLess(Tail(a), Tail(b))

\* str.startswith(prefix)
startswith(s, prefix) ==
    Len(s) >= Len(prefix) /\ SubSeq(s, 1, Len(prefix)) = prefix

\* '\n'.join(lines)
RECURSIVE JoinLines(_)
JoinLines(lines) ==
    IF lines = <<>> THEN <<>>
    ELSE IF Len(lines) = 1 THEN lines[1]
    ELSE lines[1] \o <<10>> \o JoinLines(Tail(lines))

\* pptx.util.Inches(x) for x given in thousandths: int(x * 914400) EMU
\* (914400 / 1000 = 9144 / 10)
Inches(thousandths) == (thousandths * 9144) \div 10

\* Python truthiness of a str or list: non-empty.
Truthy(s) == s # <<>>

(***************************************************************************)
(* clean_punctuation                                                       *)
(***************************************************************************)

clean_punctuation_first_only(text) ==
    str_replace_first(str_replace_first(text, <<44>>, <<>>), <<46>>, <<>>)

\* create_lyrics_pptx.py: text.replace(',', '').replace('.', '')
clean_punctuation(text) ==
    str_replace(str_replace(text, <<44>>, <<>>), <<46>>, <<>>)

\* webapp/backend/main.py: the same body, defined again
web_clean_punctuation(text) ==
    str_replace(str_replace(text, <<44>>, <<>>), <<46>>, <<>>)

CleanBy(impl, text) ==
    IF impl = "cli" THEN clean_punctuation(text) ELSE web_clean_punctuation(text)


(***************************************************************************)
(* get_optimal_layout                                                      *)
(***************************************************************************)

Layout(c, f) == [columns |-> c, font_size |-> f]

\* a table whose 57..72 row was given the 43..56 row's font and vice versa
LayoutTableCliSwapped(line_count) ==
    IF line_count <= 15 THEN Layout(1, 22)
    ELSE IF line_count <= 28 THEN Layout(2, 18)
    ELSE IF line_count <= 42 THEN Layout(3, 16)
    ELSE IF line_count <= 56 THEN Layout(4, 12)
    ELSE IF line_count <= 72 THEN Layout(4, 14)
    ELSE Layout(5, 10)

\* a table whose comparisons are strict: each breakpoint falls into the next
\* row
LayoutTableCliStrict(line_count) ==
    IF line_count < 15 THEN Layout(1, 22)
    ELSE IF line_count < 28 THEN Layout(2, 18)
    ELSE IF line_count < 42 THEN Layout(3, 16)
    ELSE IF line_count < 56 THEN Layout(4, 14)
    ELSE IF line_count < 72 THEN Layout(4, 12)
    ELSE Layout(5, 10)

\* create_lyrics_pptx.py: the if/elif chain over line_count
LayoutTableCli(line_count) ==
    IF line_count <= 15 THEN Layout(1, 22)
    ELSE IF line_count <= 28 THEN Layout(2, 18)
    ELSE IF line_count <= 42 THEN Layout(3, 16)
    ELSE IF line_count <= 56 THEN Layout(4, 14)
    ELSE IF line_count <= 72 THEN Layout(4, 12)
    ELSE Layout(5, 10)

\* webapp/backend/main.py: the if/elif chain over line_count
LayoutTableWeb(line_count) ==
    IF line_count <= 15 THEN Layout(1, 22)
    ELSE IF line_count <= 28 THEN Layout(2, 18)
    ELSE IF line_count <= 42 THEN Layout(3, 16)
    ELSE IF line_count <= 56 THEN Layout(4, 14)
    ELSE Layout(5, 10)

IsBlankLine(line) == ~Truthy(strip(line))
NonBlankLine(line) == Truthy(strip(line))

\* a layout that counts only the lines that hold text
get_optimal_layout_nonblank(lines) ==
    LayoutTableCli(Len(SelectSeq(lines, NonBlankLine)))

\* create_lyrics_pptx.py: line_count = len(lines), then the table
get_optimal_layout(lines) == LayoutTableCli(Len(lines))

\* webapp/backend/main.py: line_count = len(lines), then the table
web_get_optimal_layout(lines) == LayoutTableWeb(Len(lines))

(***************************************************************************)
(* split_into_sections, assign_section_colors                              *)
(***************************************************************************)

\* create_lyrics_pptx.py SECTION_COLORS: six RGBColor values
SECTION_COLORS ==
    << <<240, 240, 255>>, <<255, 220, 180>>, <<180, 255, 200>>,
       <<255, 200, 220>>, <<200, 220, 255>>, <<255, 255, 180>> >>

\* webapp/backend/main.py SECTION_COLORS: its own copy of the list
WEB_SECTION_COLORS ==
    << <<240, 240, 255>>, <<255, 220, 180>>, <<180, 255, 200>>,
       <<255, 200, 220>>, <<200, 220, 255>>, <<255, 255, 180>> >>

\* the loop of split_into_sections without the flush after it
RECURSIVE sections_loop_no_flush(_, _, _)
sections_loop_no_flush(lines, sections, current_section) ==
    IF lines = <<>> THEN sections
    ELSE LET line == Head(lines) IN
         IF ~Truthy(strip(line))
         THEN IF Truthy(current_section)
              THEN sections_loop_no_flush(Tail(lines), Append(sections, current_section), <<>>)
              ELSE sections_loop_no_flush(Tail(lines), sections, current_section)
         ELSE sections_loop_no_flush(Tail(lines), sections, Append(current_section, line))

\* create_lyrics_pptx.py split_into_sections: the for loop over lines, then
\* the flush of the section still open when the lines run out
RECURSIVE sections_loop(_, _, _)
sections_loop(lines, sections, current_section) ==
    IF lines = <<>>
    THEN IF Truthy(current_section) THEN Append(sections, current_section) ELSE sections
    ELSE LET line == Head(lines) IN
         IF ~Truthy(strip(line))
         THEN IF Truthy(current_section)
              THEN sections_loop(Tail(lines), Append(sections, current_section), <<>>)
              ELSE sections_loop(Tail(lines), sections, current_section)
         ELSE sections_loop(Tail(lines), sections, Append(current_section, line))

split_into_sections_no_flush(lines) == sections_loop_no_flush(lines, <<>>, <<>>)

split_into_sections(lines) == sections_loop(lines, <<>>, <<>>)

\* webapp/backend/main.py split_into_sections: blankness is tested on the
\* raw line, and the line is appended with its punctuation cleaned
RECURSIVE web_sections_loop(_, _, _)
web_sections_loop(lines, sections, current_section) ==
    IF lines = <<>>
    THEN IF Truthy(current_section) THEN Append(sections, current_section) ELSE sections
    ELSE LET line == Head(lines) IN
         IF ~Truthy(strip(line))
         THEN IF Truthy(current_section)
              THEN web_sections_loop(Tail(lines), Append(sections, current_section), <<>>)
              ELSE web_sections_loop(Tail(lines), sections, current_section)
         ELSE web_sections_loop(Tail(lines), sections,
                                Append(current_section, web_clean_punctuation(line)))

web_split_into_sections(lines) == web_sections_loop(lines, <<>>, <<>>)

\* [(line, color) for line in section]
ColourLines(section, color) == [j \in 1..Len(section) |-> <<section[j], color>>]

\* the enumerate loop shared by assign_section_colors and generate_pptx:
\* i is the 0-based index of the next section, n the palette length used
\* for the modulus
RECURSIVE colors_loop(_, _, _, _, _)
colors_loop(sections, i, result, palette, n) ==
    IF i >= Len(sections) THEN result
    ELSE LET color == palette[(i % n) + 1]
             with_lines == result \o ColourLines(sections[i + 1], color)
         IN  colors_loop(sections, i + 1,
                         IF i < Len(sections) - 1
                         THEN Append(with_lines, <<<<>>, palette[1]>>)
                         ELSE with_lines,
                         palette, n)

\* a modulus one short of the palette's length
assign_section_colors_short_modulus(sections) ==
    colors_loop(sections, 0, <<>>, SECTION_COLORS, Len(SECTION_COLORS) - 1)

\* a colouring that adds the separator after every section, the last too
assign_section_colors_separator_after_each(sections) ==
    LET colored == colors_loop(sections, 0, <<>>, SECTION_COLORS, Len(SECTION_COLORS))
    IN  IF sections = <<>> THEN colored
        ELSE Append(colored, <<<<>>, SECTION_COLORS[1]>>)

\* create_lyrics_pptx.py assign_section_colors
assign_section_colors(sections) ==
    colors_loop(sections, 0, <<>>, SECTION_COLORS, Len(SECTION_COLORS))

\* webapp/backend/main.py generate_pptx: the inline colouring loop
web_assign_section_colors(sections) ==
    colors_loop(sections, 0, <<>>, WEB_SECTION_COLORS, Len(WEB_SECTION_COLORS))

(***************************************************************************)
(* split_into_columns                                                      *)
(***************************************************************************)

\* lines_per_col rounded down instead of up
split_into_columns_floor(lines, num_columns) ==
    LET lines_per_col == Len(lines) \div num_columns IN
    [i \in 1..num_columns |->
        PySlice(lines, (i - 1) * lines_per_col, (i - 1) * lines_per_col + lines_per_col)]

\* create_lyrics_pptx.py split_into_columns (range(num_columns) is 0-based,
\* the columns list is 1-based here)
split_into_columns(lines, num_columns) ==
    LET lines_per_col == (Len(lines) + num_columns - 1) \div num_columns IN
    [i \in 1..num_columns |->
        PySlice(lines, (i - 1) * lines_per_col, (i - 1) * lines_per_col + lines_per_col)]

\* webapp/backend/main.py generate_pptx: the inline split of colored_lines
web_split_into_columns(colored_lines, num_columns) ==
    LET lines_per_col == (Len(colored_lines) + num_columns - 1) \div num_columns IN
    [i \in 1..num_columns |->
        PySlice(colored_lines, (i - 1) * lines_per_col,
                (i - 1) * lines_per_col + lines_per_col)]

(***************************************************************************)
(* download_background_image                                               *)
(***************************************************************************)

\* the decimal digits of n >= 0, as characters '0'..'9' (48..57)
RECURSIVE Digits(_)
Digits(n) == IF n < 10 THEN <<48 + n>> ELSE Append(Digits(n \div 10), 48 + (n % 10))

\* f"{seed:03d}" for seed >= 0: zero-padded to at least three characters
Format03d(seed) ==
    LET d == Digits(seed) IN
    IF Len(d) >= 3 THEN d ELSE [i \in 1..(3 - Len(d)) |-> 48] \o d

\* CACHE_DIR / f"bg_{seed:03d}.jpg": the directory and the file name
CachePath(impl, seed) ==
    <<IF impl = "cli" THEN "image_cache" ELSE "cache", "bg_", Format03d(seed), ".jpg">>

\* What the HTTP request and the write of the response can do:
\*   "image"       status 200, an image content type, the file is written
\*   "not_image"   status 200, another content type
\*   "not_200"     another status
\*   "raise"       requests.get raises
\*   "write_error" status 200 and an image, write_bytes raises
HttpOutcomes == {"image", "not_image", "not_200", "raise", "write_error"}

\* create_lyrics_pptx.py: status 200 and 'image' in the content type
CliAccepts(outcome) == outcome \in {"image", "write_error"}

\* webapp/backend/main.py: status 200
WebAccepts(outcome) == outcome \in {"image", "not_image", "write_error"}

\* The result of one call: the value returned, the cache directory after
\* it, and whether an HTTP request was issued. A write_bytes that raises may
\* have created the file (left_file) before it failed.
DownloadResult(ret, files, requested) ==
    [ret |-> ret, files |-> files, requested |-> requested]

\* a download that keeps whatever the server answered, whatever the status
FetchAnyStatus(impl, files, seed, outcome, left_file) ==
    LET cache_path == CachePath(impl, seed) IN
    IF outcome \in {"image", "not_image", "not_200"}
    THEN DownloadResult(Some(cache_path), files \cup {cache_path}, TRUE)
    ELSE IF outcome = "write_error" /\ left_file
    THEN DownloadResult(None, files \cup {cache_path}, TRUE)
    ELSE DownloadResult(None, files, TRUE)

\* the try block of download_background_image: the request, the test of
\* the response, the write and the path; None when the response is not
\* accepted or an exception was caught
Fetch(impl, files, seed, outcome, left_file) ==
    LET cache_path == CachePath(impl, seed)
        accepted == IF impl = "cli" THEN CliAccepts(outcome) ELSE WebAccepts(outcome)
    IN  IF accepted /\ outcome # "write_error"
        THEN DownloadResult(Some(cache_path), files \cup {cache_path}, TRUE)
        ELSE IF accepted /\ left_file
        THEN DownloadResult(None, files \cup {cache_path}, TRUE)
        ELSE DownloadResult(None, files, TRUE)

\* a download that never looks in the cache
download_background_image_no_cache_check(impl, files, seed, outcome, left_file) ==
    Fetch(impl, files, seed, outcome, left_file)

\* download_background_image of either program: the cached path when the
\* file exists, else the request, the write and the path, else None
download_background_image(impl, files, seed, outcome, left_file) ==
    LET cache_path == CachePath(impl, seed) IN
    IF cache_path \in files
    THEN DownloadResult(Some(cache_path), files, FALSE)
    ELSE Fetch(impl, files, seed, outcome, left_file)

(***************************************************************************)
(* is_hebrew, is_hebrew_song, parse_lyrics_file                            *)
(***************************************************************************)

\* create_lyrics_pptx.py is_hebrew: the first char in U+0590..U+05FF
\* (1424..1535) returns True; none returns False
RECURSIVE is_hebrew(_)
is_hebrew(text) ==
    IF text = <<>> THEN FALSE
    ELSE IF 1424 <= Head(text) /\ Head(text) <= 1535 THEN TRUE
    ELSE is_hebrew(Tail(text))

\* webapp/backend/main.py is_hebrew: the same loop, defined again
RECURSIVE web_is_hebrew(_)
web_is_hebrew(text) ==
    IF text = <<>> THEN FALSE
    ELSE IF 1424 <= Head(text) /\ Head(text) <= 1535 THEN TRUE
    ELSE web_is_hebrew(Tail(text))

\* sum(1 for line in lines if is_hebrew(line))
RECURSIVE CountHebrew(_)
CountHebrew(lines) ==
    IF lines = <<>> THEN 0
    ELSE (IF is_hebrew(Head(lines)) THEN 1 ELSE 0) + CountHebrew(Tail(lines))

\* a song is Hebrew as soon as one of its first five lines is
is_hebrew_song_one_line(title, lyrics_lines) ==
    IF is_hebrew(title) THEN TRUE
    ELSE CountHebrew(PySlice(lyrics_lines, 0, 5)) >= 1

\* create_lyrics_pptx.py is_hebrew_song
is_hebrew_song(title, lyrics_lines) ==
    IF is_hebrew(title) THEN TRUE
    ELSE LET hebrew_lines == CountHebrew(PySlice(lyrics_lines, 0, 5)) IN
         hebrew_lines >= 2

\* parse_lyrics_file's for loop: a line starting with '# ' sets the title,
\* every other line is appended with its punctuation cleaned
RECURSIVE parse_loop(_, _, _)
parse_loop(lines, title, lyrics_lines) ==
    IF lines = <<>> THEN [title |-> title, lyrics_lines |-> lyrics_lines]
    ELSE LET line == Head(lines) IN
         IF startswith(line, <<35, 32>>)
         THEN parse_loop(Tail(lines), strip(PySlice(line, 2, Len(line))), lyrics_lines)
         ELSE parse_loop(Tail(lines), title, Append(lyrics_lines, clean_punctuation(line)))

\* while lyrics_lines and not lyrics_lines[0].strip(): lyrics_lines.pop(0)
RECURSIVE pop_leading_blank(_)
pop_leading_blank(lyrics_lines) ==
    IF Truthy(lyrics_lines) /\ ~Truthy(strip(lyrics_lines[1]))
    THEN pop_leading_blank(Tail(lyrics_lines))
    ELSE lyrics_lines

\* while lyrics_lines and not lyrics_lines[-1].strip(): lyrics_lines.pop()
RECURSIVE pop_trailing_blank(_)
pop_trailing_blank(lyrics_lines) ==
    IF Truthy(lyrics_lines) /\ ~Truthy(strip(lyrics_lines[Len(lyrics_lines)]))
    THEN pop_trailing_blank(SubSeq(lyrics_lines, 1, Len(lyrics_lines) - 1))
    ELSE lyrics_lines

\* parse_lyrics_file without the second while loop: trailing blank lines stay
parse_lyrics_file_keep_trailing(stem, content) ==
    LET lines == str_split(strip(content), 10, <<>>)
        parsed == parse_loop(lines, str_replace(stem, <<95>>, <<32>>), <<>>)
    IN  [title |-> parsed.title,
         lyrics_lines |-> pop_leading_blank(parsed.lyrics_lines)]

\* create_lyrics_pptx.py parse_lyrics_file, of a file with the given stem
\* and content: (title, lyrics_lines)
parse_lyrics_file(stem, content) ==
    LET lines == str_split(strip(content), 10, <<>>)
        parsed == parse_loop(lines, str_replace(stem, <<95>>, <<32>>), <<>>)
    IN  [title |-> parsed.title,
         lyrics_lines |-> pop_trailing_blank(pop_leading_blank(parsed.lyrics_lines))]

(***************************************************************************)
(* Slides: add_lyrics_slide (CLI generator), generate_pptx (web backend)   *)
(***************************************************************************)

\* prs.slide_width = Inches(13.333), prs.slide_height = Inches(7.5)
slide_width == Inches(13333)
slide_height == Inches(7500)

\* a shape of slide.shapes; fill, image, paragraphs are <<>> when absent
Shape(type, left, top, width, height, fill, image, paragraphs) ==
    [type |-> type, left |-> left, top |-> top, width |-> width, height |-> height,
     fill |-> fill, image |-> image, paragraphs |-> paragraphs]

Paragraph(text, size, bold, color, alignment) ==
    [text |-> text, size |-> size, bold |-> bold, color |-> color,
     alignment |-> alignment]

\* the dark rectangle over the whole slide
BackgroundShape ==
    Shape("RECTANGLE", 0, 0, slide_width, slide_height, <<25, 25, 35>>, <<>>, <<>>)

\* slide.shapes.add_picture(str(bg_image), 0, 0, slide_width, slide_height)
PictureShape(bg_image) ==
    Shape("PICTURE", 0, 0, slide_width, slide_height, <<>>, bg_image, <<>>)

\* the title text box: one centred bold 32 pt paragraph
TitleShape(title) ==
    Shape("TEXTBOX", Inches(300), Inches(200), slide_width - Inches(600), Inches(600),
          <<>>, <<>>, <<Paragraph(title, 32, TRUE, <<40, 40, 60>>, "CENTER")>>)

\* The shapes of column i (0-based): the backing rounded rectangle when a
\* picture was placed, then the text box with one paragraph per line.
\* col_width = (available_width - col_gap * (num_columns - 1)) / num_columns
\* is kept in whole EMU here.
ColumnShapes(i, col_lines, num_columns, font_size, is_rtl, has_bg_image) ==
    LET margin == Inches(300)
        content_top == Inches(900)
        content_height == slide_height - content_top - Inches(300)
        available_width == slide_width - (2 * margin)
        col_gap == Inches(200)
        col_width == (available_width - (col_gap * (num_columns - 1))) \div num_columns
        left == IF is_rtl
                THEN slide_width - margin - col_width - (i * (col_width + col_gap))
                ELSE margin + (i * (col_width + col_gap))
        text_bg == Shape("ROUNDED_RECTANGLE", left - Inches(100),
                         content_top - Inches(50), col_width + Inches(200),
                         content_height + Inches(100), <<30, 30, 50>>, <<>>, <<>>)
        text_box == Shape("TEXTBOX", left, content_top, col_width, content_height,
                          <<>>, <<>>,
                          [j \in 1..Len(col_lines) |->
                              Paragraph(col_lines[j][1], font_size, FALSE, col_lines[j][2],
                                        IF is_rtl THEN "RIGHT" ELSE "LEFT")])
    IN  (IF has_bg_image THEN <<text_bg>> ELSE <<>>) \o <<text_box>>

\* for i, col_lines in enumerate(columns): ...
RECURSIVE AllColumnShapes(_, _, _, _, _, _)
AllColumnShapes(columns, i, num_columns, font_size, is_rtl, has_bg_image) ==
    IF i >= Len(columns) THEN <<>>
    ELSE ColumnShapes(i, columns[i + 1], num_columns, font_size, is_rtl, has_bg_image)
             \o AllColumnShapes(columns, i + 1, num_columns, font_size, is_rtl,
                                has_bg_image)

\* create_lyrics_pptx.py add_lyrics_slide: the shapes added to the new
\* slide, in order, the cache directory afterwards and what the download
\* did. picture_ok: add_picture does not raise.
add_lyrics_slide(title, lyrics_lines, song_index, files, outcome, left_file, picture_ok) ==
    LET is_rtl == is_hebrew_song(title, lyrics_lines)
        dl == download_background_image("cli", files, song_index, outcome, left_file)
        bg_image == dl.ret
        has_bg_image == Truthy(bg_image) /\ picture_ok
        layout == get_optimal_layout(lyrics_lines)
        num_columns == layout.columns
        font_size == layout.font_size
        sections == split_into_sections(lyrics_lines)
        colored_lines == assign_section_colors(sections)
        columns == split_into_columns(colored_lines, num_columns)
    IN  [shapes |-> <<BackgroundShape>>
                      \o (IF has_bg_image THEN <<PictureShape(bg_image[1])>> ELSE <<>>)
                      \o <<TitleShape(title)>>
                      \o AllColumnShapes(columns, 0, num_columns, font_size, is_rtl,
                                         has_bg_image),
         files |-> dl.files,
         download |-> dl]

\* webapp/backend/main.py generate_pptx, with seed = hash(title) % 1000:
\* the shapes of the presentation's one slide, in order
generate_pptx(title, lyrics_lines, seed, files, outcome, left_file, picture_ok) ==
    LET is_rtl == web_is_hebrew(title)
        dl == download_background_image("web", files, seed, outcome, left_file)
        bg_image == dl.ret
        has_bg_image == Truthy(bg_image) /\ picture_ok
        sections == web_split_into_sections(lyrics_lines)
        colored_lines == web_assign_section_colors(sections)
        layout == web_get_optimal_layout(colored_lines)
        num_columns == layout.columns
        font_size == layout.font_size
        columns == web_split_into_columns(colored_lines, num_columns)
    IN  [shapes |-> <<BackgroundShape>>
                      \o (IF has_bg_image THEN <<PictureShape(bg_image[1])>> ELSE <<>>)
                      \o <<TitleShape(title)>>
                      \o AllColumnShapes(columns, 0, num_columns, font_size, is_rtl,
                                         has_bg_image),
         files |-> dl.files,
         download |-> dl]

\* generate with the fallback dropped: the extracted title is used as it is
generate_title_extracted_only(title, request_title) == title

\* webapp/backend/main.py generate: "if not title: title = request.title"
generate_title(title, request_title) ==
    IF ~Truthy(title) THEN request_title ELSE title

(***************************************************************************)
(* create_lyrics_pptx.py main                                              *)
(***************************************************************************)

\* the file name the paths are sorted by
FileName(f) == f.stem \o <<46, 116, 120, 116>>

\* sorted(lyrics_dir.glob('*.txt'))
RECURSIVE SortedFiles(_)
SortedFiles(dir) ==
    IF dir = {} THEN <<>>
    ELSE LET first == CHOOSE f \in dir :
                 \A g \in dir \ {f} : StrLess(FileName(f), FileName(g))
         IN  <<first>> \o SortedFiles(dir \ {first})

\* the title slide: the background, and a text box with the heading and
\* f"{len(lyrics_files)} Songs"
TitleSlide(file_count) ==
    [shapes |->
        <<Shape("RECTANGLE", 0, 0, slide_width, slide_height, <<20, 20, 35>>, <<>>, <<>>),
          Shape("TEXTBOX", Inches(500), Inches(2500), slide_width - Inches(1000),
                Inches(2000), <<>>, <<>>,
                <<Paragraph(<<127925, 32, 83, 111, 110, 103, 32, 76, 121, 114, 105, 99,
                              115, 32, 67, 111, 108, 108, 101, 99, 116, 105, 111, 110>>,
                            54, TRUE, <<255, 220, 120>>, "CENTER"),
                  Paragraph(Digits(file_count) \o <<32, 83, 111, 110, 103, 115>>,
                            28, FALSE, <<180, 180, 200>>, "CENTER")>>)>>]

(***************************************************************************)
(* extract_lyrics.py: sanitize_filename and the body of main's loop        *)
(***************************************************************************)

\* the characters of the class [<>:"/\\|?*]
InvalidFilenameChar(c) == c \in {60, 62, 58, 34, 47, 92, 124, 63, 42}
ValidFilenameChar(c) == ~InvalidFilenameChar(c)

\* extract_lyrics.py sanitize_filename: the invalid characters removed,
\* spaces turned into underscores, at most 100 characters kept
sanitize_filename(name) ==
    PySlice(str_replace(SelectSeq(name, ValidFilenameChar), <<32>>, <<95>>), 0, 100)

\* What one song's page and file can do:
\*   "lyrics"       the lyrics element holds text, the file is written
\*   "empty"        no lyrics element, or an empty one
\*   "goto_raises"  page.goto (or a later page call) raises
\*   "open_raises"  open(filepath, 'w') raises, no file is created
\*   "write_raises" a write raises after the file was created
PageOutcomes == {"lyrics", "empty", "goto_raises", "open_raises", "write_raises"}

\* the text of a lyrics element: 'x', a line feed, 'y'
LyricsText == <<120, 10, 121>>

\* extract_lyrics.py extract_lyrics(page, url): it raises when a page call
\* does, returns '' without a lyrics element (or for an empty one), else
\* the element's text
extract_lyrics(page) ==
    IF page = "goto_raises" THEN [raised |-> TRUE, text |-> <<>>]
    ELSE IF page = "empty" THEN [raised |-> FALSE, text |-> <<>>]
    ELSE [raised |-> FALSE, text |-> LyricsText]

\* the result of one pass through the loop body: the song's outcome, the
\* directory afterwards, whether its URL was navigated to, whether an
\* exception left the loop, and the text extract_lyrics returned (None when
\* it was not called or raised)
Pass(outcome, fs, navigated, uncaught, lyrics) ==
    [outcome |-> outcome, fs |-> fs, navigated |-> navigated, uncaught |-> uncaught,
     lyrics |-> lyrics]

\* with open(filepath, 'w') as f: the header line, a blank line, the lyrics;
\* a write that raises leaves the file that open created
WriteLyricsFile(fs, filename, song, lyrics, page) ==
    [f \in DOMAIN fs \cup {filename} |->
        IF f # filename THEN fs[f]
        ELSE IF page = "write_raises" THEN <<>>
        ELSE <<35, 32>> \o song.name \o <<10, 10>> \o lyrics]

\* a loop body without the try / except around the extraction
process_song_no_except(song, fs, page) ==
    LET filename == sanitize_filename(song.name) \o <<46, 116, 120, 116>>
        lyrics == extract_lyrics(page)
    IN  IF filename \in DOMAIN fs
        THEN Pass("skipped", fs, FALSE, FALSE, None)
        ELSE IF lyrics.raised THEN Pass("error", fs, TRUE, TRUE, None)
        ELSE IF ~Truthy(lyrics.text) THEN Pass("no_lyrics", fs, TRUE, FALSE, Some(lyrics.text))
        ELSE IF page = "open_raises" THEN Pass("error", fs, TRUE, TRUE, Some(lyrics.text))
        ELSE IF page = "write_raises"
        THEN Pass("error", WriteLyricsFile(fs, filename, song, lyrics.text, page),
                  TRUE, TRUE, Some(lyrics.text))
        ELSE Pass("saved", WriteLyricsFile(fs, filename, song, lyrics.text, page),
                  TRUE, FALSE, Some(lyrics.text))

\* a loop body without the "if filepath.exists(): continue" test
process_song_no_exists_check(song, fs, page) ==
    LET filename == sanitize_filename(song.name) \o <<46, 116, 120, 116>>
        lyrics == extract_lyrics(page)
    IN  IF lyrics.raised THEN Pass("error", fs, TRUE, FALSE, None)
        ELSE IF ~Truthy(lyrics.text) THEN Pass("no_lyrics", fs, TRUE, FALSE, Some(lyrics.text))
        ELSE IF page = "open_raises" THEN Pass("error", fs, TRUE, FALSE, Some(lyrics.text))
        ELSE IF page = "write_raises"
        THEN Pass("error", WriteLyricsFile(fs, filename, song, lyrics.text, page),
                  TRUE, FALSE, Some(lyrics.text))
        ELSE Pass("saved", WriteLyricsFile(fs, filename, song, lyrics.text, page),
                  TRUE, FALSE, Some(lyrics.text))

\* extract_lyrics.py main, the body of `for song in songs`: skip a song
\* whose file exists; else extract, write the file when there are lyrics,
\* and catch any Exception
process_song(song, fs, page) ==
    LET filename == sanitize_filename(song.name) \o <<46, 116, 120, 116>>
        lyrics == extract_lyrics(page)
    IN  IF filename \in DOMAIN fs
        THEN Pass("skipped", fs, FALSE, FALSE, None)
        ELSE IF lyrics.raised THEN Pass("error", fs, TRUE, FALSE, None)
        ELSE IF ~Truthy(lyrics.text) THEN Pass("no_lyrics", fs, TRUE, FALSE, Some(lyrics.text))
        ELSE IF page = "open_raises" THEN Pass("error", fs, TRUE, FALSE, Some(lyrics.text))
        ELSE IF page = "write_raises"
        THEN Pass("error", WriteLyricsFile(fs, filename, song, lyrics.text, page),
                  TRUE, FALSE, Some(lyrics.text))
        ELSE Pass("saved", WriteLyricsFile(fs, filename, song, lyrics.text, page),
                  TRUE, FALSE, Some(lyrics.text))

(***************************************************************************)
(* Bounded inputs                                                          *)
(***************************************************************************)

MaxTextLen == 3

\* ',' '.' ' ' 'a' and a Hebrew letter
TextChars == {44, 46, 32, 97, 1488}

SeqsUpTo(S, n) == UNION {[1..k -> S] : k \in 0..n}

Texts == SeqsUpTo(TextChars, MaxTextLen)

MaxLayoutLines == 75
MaxCalls == 2

\* '', 'a', ' ' and a Hebrew letter followed by a comma
LayoutLineKinds == {<<>>, <<97>>, <<32>>, <<1488, 44>>}

Fill(n, line) == [i \in 1..n |-> line]
Alternate(n, odd, even) == [i \in 1..n |-> IF i % 2 = 1 THEN odd ELSE even]

\* the line lists of length n: one line repeated, or text and blank lines
\* in turn
LayoutInputsOfLen(n) ==
    {Fill(n, l) : l \in LayoutLineKinds}
        \cup {Alternate(n, <<97>>, <<>>), Alternate(n, <<>>, <<1488, 44>>)}

LayoutInputs == UNION {LayoutInputsOfLen(n) : n \in 0..MaxLayoutLines}

MaxShortLines == 4
MaxSections == 8

\* '', ' ', 'a', 'b,' and ','
SectionLineKinds == {<<>>, <<32>>, <<97>>, <<98, 44>>, <<44>>}

\* count sections of run lines each ('a', 'b', 'c', 'a', ... in turn), with
\* gap blank lines ('' and ' ' in turn) between two of them
RECURSIVE Regular(_, _, _)
Regular(run, gap, count) ==
    IF count = 0 THEN <<>>
    ELSE LET before == Regular(run, gap, count - 1)
             blanks == IF count = 1 THEN <<>>
                       ELSE [i \in 1..gap |-> IF i % 2 = 1 THEN <<>> ELSE <<32>>]
             text == [i \in 1..run |-> <<97 + ((Len(before) + i) % 3)>>]
         IN  before \o blanks \o text

\* every short list over the line kinds, and long regular lists
SectionInputs ==
    SeqsUpTo(SectionLineKinds, MaxShortLines)
        \cup {Regular(run, gap, count) :
                 run \in 1..2, gap \in 1..2, count \in 0..MaxSections}

MaxSplitLen == 6
MaxSplitColumns == 5

\* ('a', colour 0), ('', colour 0), ('b', colour 1)
ColouredKinds ==
    {<<<<97>>, SECTION_COLORS[1]>>, <<<<>>, SECTION_COLORS[1]>>,
     <<<<98>>, SECTION_COLORS[2]>>}

\* n coloured lines, no two neighbours alike
LongColoured(n) ==
    [i \in 1..n |-> <<<<97 + (i % 3)>>, SECTION_COLORS[(i % 6) + 1]>>]

\* every short list of coloured lines, and one list just past each of the
\* layout's breakpoints
ColumnInputs ==
    SeqsUpTo(ColouredKinds, MaxSplitLen)
        \cup {LongColoured(n) : n \in {16, 29, 43, 57, 73}}

MaxSeed == 1
MaxDownloadCalls == 4

\* the first song indexes, and seeds of two, three and four digits
Seeds == (0..MaxSeed) \cup {10, 100, 1000}

MaxBodyLines == 3
MaxFiles == 2
MaxRequests == 1

\* file stems 's' and alef '_' 'b'
Stems == {<<115>>, <<1488, 95, 98>>}

\* '', 'a,', alef and '# b'
BodyLineKinds == {<<>>, <<97, 44>>, <<1488>>, <<35, 32, 98>>}

\* n lines: a Hebrew line at the positions in hebrew_at, else a blank line
\* at every fourth position and 'a,' elsewhere
LongBody(n, hebrew_at) ==
    [i \in 1..n |-> IF i \in hebrew_at THEN <<1488>>
                    ELSE IF i % 4 = 0 THEN <<>> ELSE <<97, 44>>]

\* two lines of one character at, or just outside, the ends of
\* U+0590..U+05FF
BoundaryBodies == {Fill(2, <<c>>) : c \in {1423, 1424, 1535, 1536}}

\* n lines: 'a', 'b', then blank lines, then 'c'
SparseBody(n) ==
    [i \in 1..n |-> IF i = 1 THEN <<97>> ELSE IF i = 2 THEN <<98>>
                    ELSE IF i = n THEN <<99>> ELSE <<>>]

LyricsFile(stem, lines) == [stem |-> stem, content |-> JoinLines(lines)]

\* the lyrics files: every short body and the boundary bodies under both
\* stems; bodies of 7 and 17 lines with and without a '# ' title line;
\* bodies of 16 and 29 lines that are mostly blank
LyricsFiles ==
    {LyricsFile(stem, body) :
        stem \in Stems, body \in SeqsUpTo(BodyLineKinds, MaxBodyLines) \cup BoundaryBodies}
    \cup {LyricsFile(<<115>>, header \o LongBody(n, hebrew_at)) :
             header \in {<<>>, << <<35, 32, 97>> >>},
             n \in {7, 17},
             hebrew_at \in SUBSET {1, 5, 6, 7}}
    \cup {LyricsFile(<<115>>, SparseBody(n)) : n \in {16, 29}}

\* files of a directory that holds more than one
SeveralFiles ==
    {LyricsFile(<<115>>, << <<97>>, <<>>, <<98>> >>),
     LyricsFile(<<115, 32, 116>>, << <<35, 32, 120>> >>),
     LyricsFile(<<1488, 95, 98>>, << <<1488>>, <<1488>> >>),
     LyricsFile(<<116>>, << <<>>, <<32>> >>)}

\* the lyrics directories: one file, or up to MaxFiles of SeveralFiles
Directories ==
    {{f} : f \in LyricsFiles}
        \cup {d \in SUBSET SeveralFiles : Cardinality(d) <= MaxFiles}

\* the request title alef 't'; extracted titles: '' and 'a'
RequestTitles == {<<1488, 116>>}
ExtractedTitles == {<<>>, <<97>>}

\* The text of the lyrics element extract_lyrics found: '', ',' and 'a,' on
\* two lines, and texts of 18 and 31 lines.
WebBodies == {<<>>, << <<44>>, <<97, 44>> >>, LongBody(18, {}), LongBody(31, {1})}

\* What extract_lyrics returns: no lyric lines (no lyrics element, or an
\* exception caught before it was read: raised), or the element's text
\* split at '\n'.
Extractions ==
    {[title |-> t, lyrics_lines |-> <<>>, raised |-> r] :
        t \in ExtractedTitles, r \in BOOLEAN}
    \cup {[title |-> t, lyrics_lines |-> str_split(JoinLines(b), 10, <<>>),
           raised |-> FALSE] : t \in ExtractedTitles, b \in WebBodies}

\* What the network and the picture file can do to one slide: the HTTP
\* outcome, whether a failed write left a file, whether add_picture works.
EnvChoices ==
    {[outcome |-> o, left_file |-> l, picture_ok |-> p] :
        o \in HttpOutcomes, l \in BOOLEAN, p \in BOOLEAN}

Env ==
    {c \in EnvChoices :
        /\ c.left_file => c.outcome = "write_error"
        /\ ~c.picture_ok => c.outcome \in {"image", "not_image", "write_error"}}

\* hash(title) % 1000 is fixed within one process and differs between
\* processes: two of the maps it can be
WebHashes ==
    {[t \in RequestTitles \cup ExtractedTitles |-> 7],
     [t \in RequestTitles \cup ExtractedTitles |-> 100 + Len(t) + (IF is_hebrew(t) THEN 800 ELSE 0)]}

MaxParseLines == 3

\* the lines of a lyrics file: '', ' ', 'a,', ' b', 'c ', '# t', '# ' and ','
ParseLineKinds ==
    {<<>>, <<32>>, <<97, 44>>, <<32, 98>>, <<99, 32>>, <<35, 32, 116>>, <<35, 32>>, <<44>>}

\* the contents of a lyrics file: up to MaxParseLines lines joined by line
\* feeds, with or without a line feed at the end
ParseContents ==
    {JoinLines(body) \o tail :
        body \in SeqsUpTo(ParseLineKinds, MaxParseLines), tail \in {<<>>, <<10>>}}

MaxSongs == 3
MaxRuns == 2
MaxRerunSongs == 2

\* song names 'a', 'a?' (the same file name as 'a') and 'b c'
SongNames == {<<97>>, <<97, 63>>, <<98, 32, 99>>}

\* a row of the table: the name, and a URL starting with 'http'
Song(name) == [name |-> name, url |-> <<104, 116, 116, 112, 58>> \o name]

SongLists == {[k \in DOMAIN names |-> Song(names[k])] : names \in SeqsUpTo(SongNames, MaxSongs)}

\* the lyrics directory before the run: files of an earlier run
OldDirectories ==
    {[f \in d |-> <<111, 108, 100>>] :
        d \in SUBSET {sanitize_filename(n) \o <<46, 116, 120, 116>> : n \in SongNames}}

(***************************************************************************)
(* The variables of the specifications that are not running.               *)
(***************************************************************************)

IdleClean ==
    /\ cp_impl = "cli"
    /\ cp_text = <<>>
    /\ cp_once = None
    /\ cp_twice = None

IdleLayout ==
    /\ lo_lines = <<>>
    /\ lo_cli = <<>>
    /\ lo_web = <<>>

IdleSections ==
    /\ se_impl = "cli"
    /\ se_lines = <<>>
    /\ se_sections = None
    /\ se_colored = None

IdleColumns ==
    /\ co_lines = <<>>
    /\ co_k = 1
    /\ co_cli = None
    /\ co_web = None

IdleDownload ==
    /\ dl_impl = "cli"
    /\ dl_files = {}
    /\ dl_last = None
    /\ dl_written = <<>>
    /\ dl_returned = <<>>
    /\ dl_calls = 0

IdleCli ==
    /\ cm_pc = "idle"
    /\ cm_dir = {}
    /\ cm_lyrics_files = <<>>
    /\ cm_idx = 0
    /\ cm_slides = <<>>
    /\ cm_cache = {}
    /\ cm_last = None

IdleWeb ==
    /\ wb_pc = "idle"
    /\ wb_hash = <<>>
    /\ wb_cache = {}
    /\ wb_count = 0
    /\ wb_last = None

IdleSlides == IdleCli /\ IdleWeb

IdleExtract ==
    /\ ex_pc = "idle"
    /\ ex_songs = <<>>
    /\ ex_i = 0
    /\ ex_fs = <<>>
    /\ ex_outcomes = <<>>
    /\ ex_visited = <<>>
    /\ ex_browser = "none"
    /\ ex_lyrics = <<>>
    /\ ex_run = 0
    /\ ex_prev = None

IdleParse ==
    /\ pa_stem = <<>>
    /\ pa_content = <<>>
    /\ pa_result = None

(***************************************************************************)
(* Specification SpecClean: clean_punctuation applied to a text and then   *)
(* to its own result.                                                      *)
(***************************************************************************)

InitClean ==
    /\ IdleLayout /\ IdleSections /\ IdleColumns /\ IdleDownload /\ IdleSlides /\ IdleExtract
    /\ IdleParse
    /\ cp_impl \in Impls
    /\ cp_text \in Texts
    /\ cp_once = None
    /\ cp_twice = None

CleanOnce ==
    /\ cp_once = None
    /\ cp_once' = Some(CleanBy(cp_impl, cp_text))
    /\ UNCHANGED <<cp_impl, cp_text, cp_twice>>

CleanTwice ==
    /\ cp_once # None
    /\ cp_twice = None
    /\ cp_twice' = Some(CleanBy(cp_impl, cp_once[1]))
    /\ UNCHANGED <<cp_impl, cp_text, cp_once>>

NextClean ==
    \/ CleanOnce /\ FrameClean
    \/ CleanTwice /\ FrameClean

SpecClean == InitClean /\ [][NextClean]_vars


(***************************************************************************)
(* Specification SpecLayout: get_optimal_layout called, more than once, on *)
(* a line list, by the CLI generator and by the web backend.               *)
(***************************************************************************)

InitLayout ==
    /\ IdleClean /\ IdleSections /\ IdleColumns /\ IdleDownload /\ IdleSlides /\ IdleExtract
    /\ IdleParse
    /\ lo_lines \in LayoutInputs
    /\ lo_cli = <<>>
    /\ lo_web = <<>>

LayoutCli ==
    /\ Len(lo_cli) < MaxCalls
    /\ lo_cli' = Append(lo_cli, get_optimal_layout(lo_lines))
    /\ UNCHANGED <<lo_lines, lo_web>>

LayoutWeb ==
    /\ Len(lo_web) < MaxCalls
    /\ lo_web' = Append(lo_web, web_get_optimal_layout(lo_lines))
    /\ UNCHANGED <<lo_lines, lo_cli>>

NextLayout ==
    \/ LayoutCli /\ FrameLayout
    \/ LayoutWeb /\ FrameLayout

SpecLayout == InitLayout /\ [][NextLayout]_vars

(***************************************************************************)
(* C2, C3                                                                  *)
(***************************************************************************)

\* C2: the layout depends on the line count alone: every call on the list
\* returned the same pair, and every list of the same length, whatever its
\* lines, gets that pair too (CLI generator and web backend).
C2_LayoutOfCountOnly ==
    /\ \A i \in 1..Len(lo_cli) :
          /\ lo_cli[i] = lo_cli[1]
          /\ \A other \in LayoutInputsOfLen(Len(lo_lines)) :
                get_optimal_layout(other) = lo_cli[i]
    /\ \A i \in 1..Len(lo_web) :
          /\ lo_web[i] = lo_web[1]
          /\ \A other \in LayoutInputsOfLen(Len(lo_lines)) :
                web_get_optimal_layout(other) = lo_web[i]

\* both generators were called twice on a 16-line list holding blank lines
C2_Witness ==
    /\ Len(lo_cli) = 2
    /\ Len(lo_web) = 2
    /\ Len(lo_lines) = 16
    /\ \E i \in 1..Len(lo_lines) : IsBlankLine(lo_lines[i])
    /\ \E i \in 1..Len(lo_lines) : NonBlankLine(lo_lines[i])

\* C3: the breakpoints are monotonic: a list no longer than the one laid
\* out gets no more columns and no smaller font (CLI generator and web
\* backend).
C3_LayoutMonotonic ==
    /\ \A i \in 1..Len(lo_cli) : \A m \in 0..Len(lo_lines) :
          LET shorter == get_optimal_layout(SubSeq(lo_lines, 1, m)) IN
          /\ shorter.columns <= lo_cli[i].columns
          /\ shorter.font_size >= lo_cli[i].font_size
    /\ \A i \in 1..Len(lo_web) : \A m \in 0..Len(lo_lines) :
          LET shorter == web_get_optimal_layout(SubSeq(lo_lines, 1, m)) IN
          /\ shorter.columns <= lo_web[i].columns
          /\ shorter.font_size >= lo_web[i].font_size

\* a list past the last breakpoint was laid out by both generators
C3_Witness ==
    /\ Len(lo_lines) >= 73
    /\ lo_cli # <<>> /\ lo_cli[1] = Layout(5, 10)
    /\ lo_web # <<>> /\ lo_web[1] = Layout(5, 10)

(***************************************************************************)
(* C12, C13                                                                *)
(***************************************************************************)

\* C12: there is one breakpoint table: on the same line list the CLI
\* generator's get_optimal_layout and the web backend's return the same
\* (columns, font_size) pair.
C12_OneLayoutTable ==
    \A i \in 1..Len(lo_cli) : \A j \in 1..Len(lo_web) : lo_cli[i] = lo_web[j]

\* the rows of the table as line-count ranges: first, last, columns, font
LayoutRows ==
    { <<0, 15, 1, 22>>, <<16, 28, 2, 18>>, <<29, 42, 3, 16>>,
      <<43, 56, 4, 14>>, <<57, 72, 4, 12>> }

\* C13 (CLI generator): get_optimal_layout gives (1, 22) for 0..15 lines,
\* (2, 18) for 16..28, (3, 16) for 29..42, (4, 14) for 43..56, (4, 12) for
\* 57..72 and (5, 10) for 73 lines and more.
C13_CliLayoutTable ==
    \A i \in 1..Len(lo_cli) :
        LET n == Len(lo_lines) IN
        /\ \A row \in LayoutRows :
              (row[1] <= n /\ n <= row[2])
                  => (lo_cli[i].columns = row[3] /\ lo_cli[i].font_size = row[4])
        /\ n >= 73 => (lo_cli[i].columns = 5 /\ lo_cli[i].font_size = 10)
        /\ DOMAIN lo_cli[i] = {"columns", "font_size"}

\* the CLI generator laid out a list of exactly 72 lines: four columns, 12 pt
C13_Witness ==
    /\ Len(lo_lines) = 72
    /\ lo_cli # <<>>
    /\ lo_cli[1] = Layout(4, 12)

\* the breakpoints 15, 28, 42, 56 and the first count past 72 were laid out
C13_WitnessBreakpoints ==
    /\ Len(lo_lines) \in {15, 28, 42, 56, 73}
    /\ Len(lo_cli) = 2


(***************************************************************************)
(* Specification SpecSections: a line list is split into sections and the  *)
(* sections are coloured, by the CLI generator's functions or by the web   *)
(* backend's.                                                              *)
(***************************************************************************)

InitSections ==
    /\ IdleClean /\ IdleLayout /\ IdleColumns /\ IdleDownload /\ IdleSlides /\ IdleExtract
    /\ IdleParse
    /\ se_impl \in Impls
    /\ se_lines \in SectionInputs
    /\ se_sections = None
    /\ se_colored = None

SplitSections ==
    /\ se_sections = None
    /\ se_sections' = Some(IF se_impl = "cli"
                           THEN split_into_sections(se_lines)
                           ELSE web_split_into_sections(se_lines))
    /\ UNCHANGED <<se_impl, se_lines, se_colored>>

AssignColors ==
    /\ se_sections # None
    /\ se_colored = None
    /\ se_colored' = Some(IF se_impl = "cli"
                          THEN assign_section_colors(se_sections[1])
                          ELSE web_assign_section_colors(se_sections[1]))
    /\ UNCHANGED <<se_impl, se_lines, se_sections>>

NextSections ==
    \/ SplitSections /\ FrameSections
    \/ AssignColors /\ FrameSections

SpecSections == InitSections /\ [][NextSections]_vars

(***************************************************************************)
(* C4, C5                                                                  *)
(***************************************************************************)

RECURSIVE Flatten(_)
Flatten(seqs) == IF seqs = <<>> THEN <<>> ELSE Head(seqs) \o Flatten(Tail(seqs))

RECURSIVE TotalLen(_)
TotalLen(seqs) == IF seqs = <<>> THEN 0 ELSE Len(Head(seqs)) + TotalLen(Tail(seqs))

\* the positions of the non-blank lines, in order
RECURSIVE NonBlankPositions(_, _)
NonBlankPositions(lines, i) ==
    IF i > Len(lines) THEN <<>>
    ELSE (IF NonBlankLine(lines[i]) THEN <<i>> ELSE <<>>)
             \o NonBlankPositions(lines, i + 1)

\* the section (1-based) that holds the j-th line of the flattened sections
SectionOf(sections, j) ==
    CHOOSE s \in 1..Len(sections) :
        /\ TotalLen(SubSeq(sections, 1, s - 1)) < j
        /\ j <= TotalLen(SubSeq(sections, 1, s))

\* C4: split_into_sections (CLI generator) returns the maximal runs of
\* consecutive non-blank lines in input order: no section is empty or holds
\* a blank line, the sections together are exactly the non-blank lines, and
\* two non-blank lines share a section iff no blank line lies between them.
C4_SectionsAreMaximalRuns ==
    (se_impl = "cli" /\ se_sections # None) =>
        LET sections == se_sections[1]
            pos == NonBlankPositions(se_lines, 1)
        IN  /\ \A s \in 1..Len(sections) :
                  /\ sections[s] # <<>>
                  /\ \A j \in 1..Len(sections[s]) : NonBlankLine(sections[s][j])
            /\ Flatten(sections) = SelectSeq(se_lines, NonBlankLine)
            /\ Len(pos) = TotalLen(sections)
            /\ \A j \in 1..Len(pos) : \A k \in j..Len(pos) :
                  (SectionOf(sections, j) = SectionOf(sections, k))
                      <=> (\A i \in pos[j]..pos[k] : NonBlankLine(se_lines[i]))

\* a list with leading, doubled and trailing blank lines was split into
\* two sections, one of them of two lines
C4_Witness ==
    /\ se_impl = "cli"
    /\ se_sections # None
    /\ Len(se_sections[1]) = 2
    /\ \E s \in 1..2 : Len(se_sections[1][s]) = 2
    /\ \E i \in 1..Len(se_lines) : se_lines[i] = <<32>>

\* where section i (0-based) starts in the coloured list: the lines of the
\* sections before it and one separator after each of them
ColouredOffset(sections, i) == TotalLen(SubSeq(sections, 1, i)) + i

\* C5: every line of the section at position i (0-based) carries the colour
\* SECTION_COLORS[i mod 6]; so adjacent sections differ in colour and
\* sections i and i+6 agree (CLI generator and web backend).
C5_SectionColours ==
    se_colored # None =>
        LET sections == se_sections[1]
            colored == se_colored[1]
            ColourOf(i) == colored[ColouredOffset(sections, i) + 1][2]
        IN  /\ \A i \in 0..(Len(sections) - 1) : \A j \in 1..Len(sections[i + 1]) :
                  /\ ColouredOffset(sections, i) + j <= Len(colored)
                  /\ colored[ColouredOffset(sections, i) + j]
                        = <<sections[i + 1][j], SECTION_COLORS[(i % 6) + 1]>>
            /\ \A i \in 0..(Len(sections) - 2) : ColourOf(i) # ColourOf(i + 1)
            /\ \A i \in 0..(Len(sections) - 7) : ColourOf(i) = ColourOf(i + 6)

\* eight sections were coloured by the CLI generator
C5_Witness ==
    /\ se_impl = "cli"
    /\ se_colored # None
    /\ Len(se_sections[1]) = 8
    /\ Len(se_sections[1][7]) = 2

\* eight sections were coloured by the web backend
C5_WitnessWeb ==
    /\ se_impl = "web"
    /\ se_colored # None
    /\ Len(se_sections[1]) = 8

(***************************************************************************)
(* C17                                                                     *)
(***************************************************************************)

\* C17: the coloured list of s >= 1 sections with L lines in total has
\* L + s - 1 entries (none for no sections): each section's lines in order,
\* and after each section but the last one separator, the empty text
\* coloured SECTION_COLORS[0]; the list built from the CLI generator's
\* split_into_sections holds no two empty texts in a row and neither starts
\* nor ends with one.
C17_OneSeparatorBetweenSections ==
    se_colored # None =>
        LET sections == se_sections[1]
            colored == se_colored[1]
            s == Len(sections)
        IN  /\ s = 0 => colored = <<>>
            /\ s >= 1 => Len(colored) = TotalLen(sections) + s - 1
            /\ \A i \in 1..(s - 1) :
                  colored[ColouredOffset(sections, i)] = <<<<>>, SECTION_COLORS[1]>>
            /\ \A i \in 0..(s - 1) : \A j \in 1..Len(sections[i + 1]) :
                  colored[ColouredOffset(sections, i) + j][1] = sections[i + 1][j]
            /\ se_impl = "cli" =>
                  /\ \A p \in 1..(Len(colored) - 1) :
                        ~(colored[p][1] = <<>> /\ colored[p + 1][1] = <<>>)
                  /\ colored # <<>> =>
                        (colored[1][1] # <<>> /\ colored[Len(colored)][1] # <<>>)

\* the CLI generator coloured three sections that two blank lines each
\* separate in the input: one separator each in the coloured list
C17_Witness ==
    /\ se_impl = "cli"
    /\ se_colored # None
    /\ Len(se_sections[1]) = 3
    /\ Len(se_lines) = TotalLen(se_sections[1]) + 4
    /\ Len(se_colored[1]) = TotalLen(se_sections[1]) + 2

\* the web backend's list holds two empty texts in a row: a section's last
\* line ',' cleaned to '', then the separator
C17_WitnessWeb ==
    /\ se_impl = "web"
    /\ se_colored # None
    /\ \E p \in 1..(Len(se_colored[1]) - 1) :
          se_colored[1][p][1] = <<>> /\ se_colored[1][p + 1][1] = <<>>

(***************************************************************************)
(* C18                                                                     *)
(***************************************************************************)

\* the CLI generator's pipeline on raw lines: parse_lyrics_file's loop
\* cleans every line, then split_into_sections sees the cleaned lines
CliSectionsOfRaw(lines) ==
    split_into_sections([k \in 1..Len(lines) |-> clean_punctuation(lines[k])])

\* C18: the web backend's split_into_sections returns, for every list of
\* raw lines, the sections the CLI generator gets by cleaning every line
\* and then splitting.
C18_SameSections ==
    (se_impl = "web" /\ se_sections # None) =>
        se_sections[1] = CliSectionsOfRaw(se_lines)


(***************************************************************************)
(* Specification SpecColumns: a list is split into co_k columns by the CLI *)
(* generator's split_into_columns and by the web backend's inline split.   *)
(***************************************************************************)

InitColumns ==
    /\ IdleClean /\ IdleLayout /\ IdleSections /\ IdleDownload /\ IdleSlides /\ IdleExtract
    /\ IdleParse
    /\ co_lines \in ColumnInputs
    /\ co_k \in 1..MaxSplitColumns
    /\ co_cli = None
    /\ co_web = None

SplitCli ==
    /\ co_cli = None
    /\ co_cli' = Some(split_into_columns(co_lines, co_k))
    /\ UNCHANGED <<co_lines, co_k, co_web>>

SplitWeb ==
    /\ co_web = None
    /\ co_web' = Some(web_split_into_columns(co_lines, co_k))
    /\ UNCHANGED <<co_lines, co_k, co_cli>>

NextColumns ==
    \/ SplitCli /\ FrameColumns
    \/ SplitWeb /\ FrameColumns

SpecColumns == InitColumns /\ [][NextColumns]_vars

(***************************************************************************)
(* C1                                                                      *)
(***************************************************************************)

\* C1: splitting into k >= 1 columns loses nothing: the k columns of
\* split_into_columns, and of generate_pptx's inline split, concatenated in
\* order are exactly the original sequence.
C1_ColumnsConcatenate ==
    /\ co_cli # None =>
          /\ Len(co_cli[1]) = co_k
          /\ Flatten(co_cli[1]) = co_lines
    /\ co_web # None =>
          /\ Len(co_web[1]) = co_k
          /\ Flatten(co_web[1]) = co_lines

\* five lines were split into three columns, the last one shorter, by both
C1_Witness ==
    /\ co_cli # None
    /\ co_web # None
    /\ Len(co_lines) = 5
    /\ co_k = 3
    /\ Len(co_cli[1][3]) = 1
    /\ co_lines[1] # co_lines[2]


(***************************************************************************)
(* Specification SpecDownload: one program (the CLI generator or the web   *)
(* backend) calls download_background_image again and again; its cache     *)
(* directory starts empty and nothing else writes to it.                   *)
(***************************************************************************)

InitDownload ==
    /\ IdleClean /\ IdleLayout /\ IdleSections /\ IdleColumns /\ IdleSlides /\ IdleExtract
    /\ IdleParse
    /\ dl_impl \in Impls
    /\ dl_files = {}
    /\ dl_last = None
    /\ dl_written = [s \in Seeds |-> 0]
    /\ dl_returned = [s \in Seeds |-> {}]
    /\ dl_calls = 0

DownloadCall(seed, outcome, left_file) ==
    LET cached == CachePath(dl_impl, seed) \in dl_files
        r == download_background_image(dl_impl, dl_files, seed, outcome, left_file)
    IN  /\ dl_calls < MaxDownloadCalls
        /\ dl_calls' = dl_calls + 1
        /\ dl_files' = r.files
        /\ dl_last' = Some([seed |-> seed, cached |-> cached, ret |-> r.ret,
                            requested |-> r.requested])
        /\ dl_written' =
              IF r.requested /\ r.ret # None
              THEN [dl_written EXCEPT ![seed] = @ + 1]
              ELSE dl_written
        /\ dl_returned' =
              IF cached \/ r.ret # None
              THEN [dl_returned EXCEPT ![seed] = @ \cup {r.ret}]
              ELSE dl_returned
        /\ UNCHANGED dl_impl

NextDownload ==
    \E seed \in Seeds, outcome \in HttpOutcomes, left_file \in BOOLEAN :
        DownloadCall(seed, outcome, left_file) /\ FrameDownload

SpecDownload == InitDownload /\ [][NextDownload]_vars

(***************************************************************************)
(* C7                                                                      *)
(***************************************************************************)

\* C7: the cache is keyed by the seed: a call whose seed has a cache file
\* returns that file's path and issues no HTTP request; a seed is downloaded
\* and written at most once; every call from then on returns the one path;
\* the files and paths of different seeds are different.
C7_CacheKeyedBySeed ==
    /\ dl_last # None /\ dl_last[1].cached =>
          /\ dl_last[1].ret = Some(CachePath(dl_impl, dl_last[1].seed))
          /\ ~dl_last[1].requested
    /\ \A s \in DOMAIN dl_written : dl_written[s] <= 1
    /\ \A s \in DOMAIN dl_returned :
          /\ Cardinality(dl_returned[s]) <= 1
          /\ None \notin dl_returned[s]
          /\ \A t \in DOMAIN dl_returned :
                s # t => dl_returned[s] \cap dl_returned[t] = {}
    /\ \A f \in dl_files :
          Cardinality({s \in Seeds : CachePath(dl_impl, s) = f}) = 1

\* seed 100 was downloaded once and then served from the cache, with the
\* files of seeds 10 and 1000 beside it
C7_Witness ==
    /\ dl_last # None
    /\ dl_last[1].seed = 100
    /\ dl_last[1].cached
    /\ dl_written[100] = 1
    /\ dl_written[10] = 1
    /\ dl_written[1000] = 1


(***************************************************************************)
(* Specification SpecSlides: one program builds slides. Either the CLI     *)
(* generator's main runs over a lyrics directory (cm_ variables), or the   *)
(* web backend serves /generate requests one after the other (wb_          *)
(* variables). The image cache may hold files of an earlier run.           *)
(***************************************************************************)

InitCli ==
    /\ IdleWeb
    /\ cm_pc = "start"
    /\ cm_dir \in Directories
    /\ cm_lyrics_files = <<>>
    /\ cm_idx = 0
    /\ cm_slides = <<>>
    /\ cm_cache \in SUBSET {CachePath("cli", 0)}
    /\ cm_last = None

InitWeb ==
    /\ IdleCli
    /\ wb_pc = "serving"
    /\ wb_hash \in WebHashes
    /\ wb_cache \in SUBSET {CachePath("web", 7)}
    /\ wb_count = 0
    /\ wb_last = None

InitSlides ==
    /\ IdleClean /\ IdleLayout /\ IdleSections /\ IdleColumns /\ IdleDownload
    /\ IdleExtract /\ IdleParse
    /\ (InitCli \/ InitWeb)

\* main up to the loop: the sorted file list and the title slide
MainStart ==
    /\ cm_pc = "start"
    /\ cm_pc' = "loop"
    /\ cm_lyrics_files' = SortedFiles(cm_dir)
    /\ cm_slides' = <<TitleSlide(Cardinality(cm_dir))>>
    /\ UNCHANGED <<cm_dir, cm_idx, cm_cache, cm_last>>

\* an iteration of main's loop that numbers the songs by the slides added so
\* far instead of by the file's index
MainLoopSeedPerSlide(outcome, left_file, picture_ok) ==
    /\ cm_pc = "loop"
    /\ cm_idx < Len(cm_lyrics_files)
    /\ LET lyrics_file == cm_lyrics_files[cm_idx + 1]
           parsed == parse_lyrics_file(lyrics_file.stem, lyrics_file.content)
           r == add_lyrics_slide(parsed.title, parsed.lyrics_lines, Len(cm_slides) - 1,
                                 cm_cache, outcome, left_file, picture_ok)
           added == Truthy(parsed.lyrics_lines)
       IN  /\ cm_slides' = IF added THEN Append(cm_slides, [shapes |-> r.shapes])
                           ELSE cm_slides
           /\ cm_cache' = IF added THEN r.files ELSE cm_cache
           /\ cm_last' = Some([idx |-> cm_idx,
                               title |-> parsed.title,
                               lyrics_lines |-> parsed.lyrics_lines,
                               added |-> added,
                               outcome |-> outcome,
                               picture_ok |-> picture_ok,
                               files_before |-> cm_cache,
                               download |-> IF added THEN Some(r.download) ELSE None])
    /\ cm_idx' = cm_idx + 1
    /\ UNCHANGED <<cm_pc, cm_dir, cm_lyrics_files>>

\* one iteration of main's loop: parse the file; if it has lyric lines, add
\* its slide with song_index = idx
MainLoop(outcome, left_file, picture_ok) ==
    /\ cm_pc = "loop"
    /\ cm_idx < Len(cm_lyrics_files)
    /\ LET lyrics_file == cm_lyrics_files[cm_idx + 1]
           parsed == parse_lyrics_file(lyrics_file.stem, lyrics_file.content)
           r == add_lyrics_slide(parsed.title, parsed.lyrics_lines, cm_idx, cm_cache,
                                 outcome, left_file, picture_ok)
           added == Truthy(parsed.lyrics_lines)
       IN  /\ cm_slides' = IF added THEN Append(cm_slides, [shapes |-> r.shapes])
                           ELSE cm_slides
           /\ cm_cache' = IF added THEN r.files ELSE cm_cache
           /\ cm_last' = Some([idx |-> cm_idx,
                               title |-> parsed.title,
                               lyrics_lines |-> parsed.lyrics_lines,
                               added |-> added,
                               outcome |-> outcome,
                               picture_ok |-> picture_ok,
                               files_before |-> cm_cache,
                               download |-> IF added THEN Some(r.download) ELSE None])
    /\ cm_idx' = cm_idx + 1
    /\ UNCHANGED <<cm_pc, cm_dir, cm_lyrics_files>>

\* prs.save after the loop
MainSave ==
    /\ cm_pc = "loop"
    /\ cm_idx = Len(cm_lyrics_files)
    /\ cm_pc' = "saved"
    /\ UNCHANGED <<cm_dir, cm_lyrics_files, cm_idx, cm_slides, cm_cache, cm_last>>

\* webapp/backend/main.py generate: extract_lyrics (what it found on the
\* page is the environment's choice), 404 without lyric lines, else the
\* request's title for an empty extracted one, and generate_pptx
Generate(request_title, extraction, outcome, left_file, picture_ok) ==
    /\ wb_pc = "serving"
    /\ wb_count < MaxRequests
    /\ wb_count' = wb_count + 1
    /\ LET lyrics == extraction.lyrics_lines
           title == generate_title(extraction.title, request_title)
           r == generate_pptx(title, lyrics, wb_hash[title], wb_cache, outcome,
                              left_file, picture_ok)
       IN  IF ~Truthy(lyrics)
           THEN /\ wb_last' = Some([request_title |-> request_title,
                                    extraction |-> extraction,
                                    status |-> 404,
                                    title |-> extraction.title,
                                    outcome |-> outcome,
                                    picture_ok |-> picture_ok,
                                    files_before |-> wb_cache,
                                    download |-> None,
                                    slides |-> <<>>])
                /\ wb_cache' = wb_cache
           ELSE /\ wb_last' = Some([request_title |-> request_title,
                                    extraction |-> extraction,
                                    status |-> 200,
                                    title |-> title,
                                    outcome |-> outcome,
                                    picture_ok |-> picture_ok,
                                    files_before |-> wb_cache,
                                    download |-> Some(r.download),
                                    slides |-> <<[shapes |-> r.shapes]>>])
                /\ wb_cache' = r.files
    /\ UNCHANGED <<wb_pc, wb_hash>>

NextSlides ==
    \/ MainStart /\ UNCHANGED varsWeb /\ FrameSlides
    \/ \E env \in Env :
          MainLoop(env.outcome, env.left_file, env.picture_ok)
              /\ UNCHANGED varsWeb /\ FrameSlides
    \/ MainSave /\ UNCHANGED varsWeb /\ FrameSlides
    \/ \E request_title \in RequestTitles, extraction \in Extractions, env \in Env :
          Generate(request_title, extraction, env.outcome, env.left_file, env.picture_ok)
              /\ UNCHANGED varsCli /\ FrameSlides

SpecSlides == InitSlides /\ [][NextSlides]_vars


(***************************************************************************)
(* C8, C10                                                                 *)
(***************************************************************************)

IsTextBox(shape) == shape.type = "TEXTBOX"
IsBacking(shape) == shape.type = "ROUNDED_RECTANGLE"
IsPicture(shape) == shape.type = "PICTURE"

\* the HTTP request failed in the eyes of the program: it raised, the status
\* was not 200 or, for the CLI generator, the content was no image
HttpFailed(impl, outcome) ==
    \/ outcome \in {"raise", "not_200"}
    \/ impl = "cli" /\ outcome = "not_image"

\* The slide has the dark background first, the title text box, and a text
\* box per column; each column's text box directly follows a backing
\* rectangle iff the slide holds a picture, and there is no other backing
\* rectangle.
SlideComplete(shapes, title, num_columns) ==
    LET boxes == SelectSeq(shapes, IsTextBox)
        has_picture == \E k \in 1..Len(shapes) : IsPicture(shapes[k])
    IN  /\ shapes[1] = BackgroundShape
        /\ Len(boxes) = 1 + num_columns
        /\ num_columns >= 1
        /\ boxes[1].paragraphs[1].text = title
        /\ \A k \in 2..Len(shapes) :
              (IsTextBox(shapes[k]) /\ shapes[k] # boxes[1])
                  => (IsBacking(shapes[k - 1]) <=> has_picture)
        /\ Len(SelectSeq(shapes, IsBacking)) = IF has_picture THEN num_columns ELSE 0

\* what C8 says of one slide request: impl's download d (None when no
\* slide was asked for) with cache directory files_before, and the slides
\* it produced
DownloadFailureIsHarmless(impl, last, slides, num_columns) ==
    /\ last.download # None =>
          /\ Len(slides) = 1
          /\ SlideComplete(slides[1].shapes, last.title, num_columns)
          /\ (IsPicture(slides[1].shapes[2])
                <=> (last.download[1].ret # None /\ last.picture_ok))
    /\ (last.download # None /\ last.download[1].requested
            /\ HttpFailed(impl, last.outcome)) =>
          /\ last.download[1].ret = None
          /\ last.download[1].files = last.files_before

\* C8: a failed download never aborts slide generation: when the request
\* raises or is not accepted, download_background_image returns None and
\* writes no cache file, and the slide still has the dark background, the
\* title and the column text boxes; the backing rectangles are there iff a
\* picture was placed (CLI generator and web backend).
C8_FailedDownloadKeepsSlide ==
    /\ cm_last # None =>
          /\ cm_last[1].added = Truthy(cm_last[1].lyrics_lines)
          /\ cm_last[1].added <=> cm_last[1].download # None
          /\ DownloadFailureIsHarmless(
                "cli", cm_last[1],
                IF cm_last[1].added THEN <<cm_slides[Len(cm_slides)]>> ELSE <<>>,
                get_optimal_layout(cm_last[1].lyrics_lines).columns)
          /\ cm_pc \in {"loop", "saved"}
    /\ wb_last # None =>
          /\ (wb_last[1].status = 200) = Truthy(wb_last[1].extraction.lyrics_lines)
          /\ (wb_last[1].status = 200) <=> wb_last[1].download # None
          /\ DownloadFailureIsHarmless(
                "web", wb_last[1], wb_last[1].slides,
                web_get_optimal_layout(
                    web_assign_section_colors(
                        web_split_into_sections(wb_last[1].extraction.lyrics_lines))
                ).columns)

\* the CLI generator's request for a two-column song's image got a
\* non-200 answer and the presentation was saved
C8_Witness ==
    /\ cm_pc = "saved"
    /\ cm_last # None
    /\ cm_last[1].added
    /\ cm_last[1].download[1].requested
    /\ cm_last[1].outcome = "not_200"
    /\ Len(cm_last[1].lyrics_lines) >= 16
    /\ Len(cm_slides) = 2

\* the web backend's request for the image raised and the slide was built
C8_WitnessWeb ==
    /\ wb_last # None
    /\ wb_last[1].status = 200
    /\ wb_last[1].download[1].requested
    /\ wb_last[1].outcome = "raise"

\* a picture was placed and every column got its backing rectangle
C8_WitnessPicture ==
    /\ cm_last # None
    /\ cm_last[1].added
    /\ Len(cm_last[1].lyrics_lines) >= 16
    /\ \E k \in 1..Len(cm_slides[Len(cm_slides)].shapes) :
          IsPicture(cm_slides[Len(cm_slides)].shapes[k])

HasHebrewChar(text) == \E k \in 1..Len(text) : text[k] \in 1424..1535

\* C10 (CLI generator): is_hebrew_song is true exactly when the title holds
\* a character in U+0590..U+05FF or at least two of the first five lyric
\* lines do; exactly then the slide's column 0 ends at the right margin with
\* right-aligned paragraphs, and otherwise column 0 starts at the left
\* margin with left-aligned paragraphs.
C10_RightToLeftFromScript ==
    cm_last # None =>
        LET title == cm_last[1].title
            lines == cm_last[1].lyrics_lines
            hebrew == \/ HasHebrewChar(title)
                      \/ Cardinality({k \in 1..Min(5, Len(lines)) :
                                         HasHebrewChar(lines[k])}) >= 2
            col0 == SelectSeq(cm_slides[Len(cm_slides)].shapes, IsTextBox)[2]
            aligned(a) == /\ col0.paragraphs # <<>>
                          /\ \A k \in 1..Len(col0.paragraphs) :
                                col0.paragraphs[k].alignment = a
        IN  /\ is_hebrew_song(title, lines) <=> hebrew
            /\ cm_last[1].added =>
                  /\ hebrew <=> (/\ col0.left + col0.width = slide_width - Inches(300)
                                 /\ aligned("RIGHT"))
                  /\ ~hebrew <=> (/\ col0.left = Inches(300)
                                  /\ aligned("LEFT"))

\* a two-column slide of a song with a Latin title whose first and fifth
\* lines are Hebrew: column 0 is the right one
C10_Witness ==
    /\ cm_last # None
    /\ cm_last[1].added
    /\ ~HasHebrewChar(cm_last[1].title)
    /\ Len(cm_last[1].lyrics_lines) = 17
    /\ HasHebrewChar(cm_last[1].lyrics_lines[1])
    /\ HasHebrewChar(cm_last[1].lyrics_lines[5])
    /\ \A k \in 2..4 : ~HasHebrewChar(cm_last[1].lyrics_lines[k])
    /\ SelectSeq(cm_slides[Len(cm_slides)].shapes, IsTextBox)[2].left > Inches(6000)

\* a song whose only Hebrew lines are the sixth and seventh stays
\* left-to-right
C10_WitnessLeft ==
    /\ cm_last # None
    /\ cm_last[1].added
    /\ Len(cm_last[1].lyrics_lines) = 7
    /\ HasHebrewChar(cm_last[1].lyrics_lines[6])
    /\ HasHebrewChar(cm_last[1].lyrics_lines[7])
    /\ SelectSeq(cm_slides[Len(cm_slides)].shapes, IsTextBox)[2].left = Inches(300)


(***************************************************************************)
(* C14                                                                     *)
(***************************************************************************)

\* the column text boxes of a slide: its text boxes after the title's
ColumnBoxes(slide) == Tail(SelectSeq(slide.shapes, IsTextBox))

\* the slide has num_columns column text boxes and, for a song with a lyric
\* line that is not blank, none of them is without a line
ColumnsFilled(slide, lyrics_lines, num_columns) ==
    /\ Len(ColumnBoxes(slide)) = num_columns
    /\ (\E k \in 1..Len(lyrics_lines) : NonBlankLine(lyrics_lines[k])) =>
          \A c \in 1..Len(ColumnBoxes(slide)) : ColumnBoxes(slide)[c].paragraphs # <<>>

\* C14: every lyrics slide has as many column text boxes as the layout has
\* columns, and when the song has a lyric line each of these boxes holds at
\* least one line (add_lyrics_slide lays out the lyric lines, generate_pptx
\* the coloured lines).
C14_NoEmptyColumn ==
    /\ (cm_last # None /\ cm_last[1].added) =>
          ColumnsFilled(cm_slides[Len(cm_slides)], cm_last[1].lyrics_lines,
                        get_optimal_layout(cm_last[1].lyrics_lines).columns)
    /\ (wb_last # None /\ wb_last[1].status = 200) =>
          ColumnsFilled(wb_last[1].slides[1], wb_last[1].extraction.lyrics_lines,
                        web_get_optimal_layout(
                            web_assign_section_colors(
                                web_split_into_sections(
                                    wb_last[1].extraction.lyrics_lines))).columns)


(***************************************************************************)
(* C11                                                                     *)
(***************************************************************************)

\* the text of the title text box of a slide
SlideTitle(slide) == SelectSeq(slide.shapes, IsTextBox)[1].paragraphs[1].text

C11_WitnessRaised ==
    /\ wb_last # None
    /\ wb_last[1].extraction.raised
    /\ wb_last[1].extraction.title # <<>>
    /\ wb_last[1].status = 404
    /\ wb_last[1].slides = <<>>

\* the lyrics element held the empty text: one blank lyric line, answered
\* with a presentation
C11_WitnessBlank ==
    /\ wb_last # None
    /\ wb_last[1].extraction.lyrics_lines = << <<>> >>
    /\ wb_last[1].status = 200


(***************************************************************************)
(* C19                                                                     *)
(***************************************************************************)

\* the file has at least one lyric line after parsing
HasLyricLines(f) == parse_lyrics_file(f.stem, f.content).lyrics_lines # <<>>

\* the 0-based position of a file in main's file list
IndexOfFile(f) == (CHOOSE i \in 1..Len(cm_lyrics_files) : cm_lyrics_files[i] = f) - 1

\* the list holds every file of the directory once, by ascending file name
InFileNameOrder(files, dir) ==
    /\ Len(files) = Cardinality(dir)
    /\ {files[i] : i \in 1..Len(files)} = dir
    /\ \A i \in 1..Len(files) : \A j \in (i + 1)..Len(files) :
          StrLess(FileName(files[i]), FileName(files[j]))

\* the slide is the song's: its title, its lyric lines' texts in the column
\* boxes, and a picture, if any, that is the cache file of the given seed
SlideOfSong(slide, f, seed) ==
    LET parsed == parse_lyrics_file(f.stem, f.content)
        texts == [k \in 1..Len(ColumnBoxes(slide)) |->
                     [j \in 1..Len(ColumnBoxes(slide)[k].paragraphs) |->
                         ColumnBoxes(slide)[k].paragraphs[j].text]]
        colored == assign_section_colors(split_into_sections(parsed.lyrics_lines))
    IN  /\ SlideTitle(slide) = parsed.title
        /\ Flatten(texts) = [j \in 1..Len(colored) |-> colored[j][1]]
        /\ \A p \in 1..Len(slide.shapes) :
              IsPicture(slide.shapes[p]) => slide.shapes[p].image = CachePath("cli", seed)

\* C19 (CLI generator): the presentation starts with the title slide; then
\* comes one slide for each file of the sorted file list that has a lyric
\* line after parsing, in file-name order, none for a file without lyric
\* lines; the background seed of a song is its file's index in the sorted
\* list, files without a slide counted.
C19_SlidePerSongInOrder ==
    cm_pc \in {"loop", "saved"} =>
        LET songs == SelectSeq(SubSeq(cm_lyrics_files, 1, cm_idx), HasLyricLines) IN
        /\ InFileNameOrder(cm_lyrics_files, cm_dir)
        /\ cm_slides[1] = TitleSlide(Cardinality(cm_dir))
        /\ Len(cm_slides) = 1 + Len(songs)
        /\ \A k \in 1..Len(songs) :
              SlideOfSong(cm_slides[k + 1], songs[k], IndexOfFile(songs[k]))
        /\ cm_pc = "saved" => cm_idx = Len(cm_lyrics_files)
        /\ (cm_last # None /\ cm_last[1].added /\ cm_last[1].download[1].ret # None) =>
              cm_last[1].download[1].ret = Some(CachePath("cli", cm_idx - 1))

\* the first file of two has no lyric lines; the second song's slide is the
\* second slide and carries the picture of seed 1
C19_Witness ==
    /\ cm_pc = "saved"
    /\ Len(cm_lyrics_files) = 2
    /\ ~HasLyricLines(cm_lyrics_files[1])
    /\ HasLyricLines(cm_lyrics_files[2])
    /\ Len(cm_slides) = 2
    /\ \E p \in 1..Len(cm_slides[2].shapes) :
          /\ IsPicture(cm_slides[2].shapes[p])
          /\ cm_slides[2].shapes[p].image = CachePath("cli", 1)

\* two songs, two slides after the title slide, in file-name order
C19_WitnessTwoSongs ==
    /\ cm_pc = "saved"
    /\ Len(cm_slides) = 3
    /\ StrLess(FileName(cm_lyrics_files[1]), FileName(cm_lyrics_files[2]))
    /\ SlideTitle(cm_slides[2]) # SlideTitle(cm_slides[3])


(***************************************************************************)
(* Specification SpecExtract: extract_lyrics.py main from the launch of    *)
(* the browser on. FairExtract adds that the script, a sequential program, *)
(* keeps running while it has a step to take.                              *)
(***************************************************************************)

InitExtract ==
    /\ IdleClean /\ IdleLayout /\ IdleSections /\ IdleColumns /\ IdleDownload
    /\ IdleSlides /\ IdleParse
    /\ ex_pc = "loop"
    /\ ex_songs \in SongLists
    /\ ex_i = 0
    /\ ex_fs \in OldDirectories
    /\ ex_outcomes = <<>>
    /\ ex_visited = <<>>
    /\ ex_browser = "open"
    /\ ex_lyrics = <<>>
    /\ ex_run = 1
    /\ ex_prev = None

\* one pass of `for song in songs`; an exception that nothing catches ends
\* the run with the browser never closed by main
ProcessSong(page) ==
    /\ ex_pc = "loop"
    /\ ex_i < Len(ex_songs)
    /\ LET song == ex_songs[ex_i + 1]
           r == process_song(song, ex_fs, page)
       IN  /\ ex_fs' = r.fs
           /\ ex_outcomes' = Append(ex_outcomes, r.outcome)
           /\ ex_visited' = IF r.navigated THEN Append(ex_visited, song.url)
                            ELSE ex_visited
           /\ ex_lyrics' = Append(ex_lyrics, r.lyrics)
           /\ ex_pc' = IF r.uncaught THEN "crashed" ELSE "loop"
    /\ ex_i' = ex_i + 1
    /\ UNCHANGED <<ex_songs, ex_browser, ex_run, ex_prev>>

\* browser.close() after the loop
CloseBrowser ==
    /\ ex_pc = "loop"
    /\ ex_i = Len(ex_songs)
    /\ ex_browser' = "closed"
    /\ ex_pc' = "done"
    /\ UNCHANGED <<ex_songs, ex_i, ex_fs, ex_outcomes, ex_visited, ex_lyrics,
                   ex_run, ex_prev>>

NextExtract ==
    \/ \E page \in PageOutcomes : ProcessSong(page) /\ FrameExtract
    \/ CloseBrowser /\ FrameExtract

SpecExtract == InitExtract /\ [][NextExtract]_vars

FairExtract == SpecExtract /\ WF_vars(NextExtract)

(***************************************************************************)
(* C9                                                                      *)
(***************************************************************************)

\* the URLs of the first n songs whose outcome is not "skipped", in order
RECURSIVE UrlsNotSkipped(_, _, _)
UrlsNotSkipped(songs, outcomes, n) ==
    IF n = 0 THEN <<>>
    ELSE UrlsNotSkipped(songs, outcomes, n - 1)
             \o (IF outcomes[n] # "skipped" THEN <<songs[n].url>> ELSE <<>>)

\* the songs processed so far are the first ex_i of the list, in list
\* order, each with one of the four outcomes, and the browser is closed only
\* after all of them
ExtractLoopInOrder ==
    /\ ex_visited = UrlsNotSkipped(ex_songs, ex_outcomes, Len(ex_outcomes))
    /\ \A k \in 1..Len(ex_outcomes) :
          ex_outcomes[k] \in {"saved", "skipped"} =>
              sanitize_filename(ex_songs[k].name) \o <<46, 116, 120, 116>>
                  \in DOMAIN ex_fs
    /\ Len(ex_outcomes) = ex_i
    /\ ex_i <= Len(ex_songs)
    /\ \A k \in 1..Len(ex_outcomes) :
          ex_outcomes[k] \in {"skipped", "saved", "no_lyrics", "error"}
    /\ ex_pc \in {"loop", "done"}
    /\ ex_browser = "closed" <=> ex_pc = "done"
    /\ ex_browser = "closed" => Len(ex_outcomes) = Len(ex_songs)

\* C9: in extract_lyrics.py's main loop an exception while extracting a
\* song is caught and the later songs are still processed in list order;
\* the run ends with every song in exactly one of the outcomes skipped,
\* saved, no-lyrics or error, and only then is the browser closed.
C9_ErrorsAreSkipped ==
    /\ [](ex_pc # "idle" => ExtractLoopInOrder)
    /\ [][ex_i' = ex_i + 1 \/ (ex_i' = ex_i /\ ex_outcomes' = ex_outcomes)]_vars
    /\ <>(ex_pc = "idle" \/ (ex_browser = "closed" /\ Len(ex_outcomes) = Len(ex_songs)))

\* the first song failed, the second was saved, the third skipped, and the
\* browser was closed
C9_Witness ==
    /\ ex_browser = "closed"
    /\ Len(ex_outcomes) = 3
    /\ ex_outcomes[1] = "error"
    /\ ex_outcomes[2] = "saved"
    /\ ex_outcomes[3] = "skipped"

(***************************************************************************)
(* Specification SpecExtractTwice: the extraction script is run again,     *)
(* over the same table and the lyrics directory the run before left.       *)
(***************************************************************************)

\* a table of at most MaxRerunSongs songs
InitExtractTwice ==
    /\ InitExtract
    /\ Len(ex_songs) <= MaxRerunSongs

\* main started again after a run that ended: the same songs, the lyrics
\* directory as it is now, a new browser
RunAgain ==
    /\ ex_pc = "done"
    /\ ex_run < MaxRuns
    /\ ex_run' = ex_run + 1
    /\ ex_prev' = Some([outcomes |-> ex_outcomes, fs |-> ex_fs])
    /\ ex_pc' = "loop"
    /\ ex_i' = 0
    /\ ex_outcomes' = <<>>
    /\ ex_visited' = <<>>
    /\ ex_lyrics' = <<>>
    /\ ex_browser' = "open"
    /\ UNCHANGED <<ex_songs, ex_fs>>

NextExtractTwice ==
    \/ NextExtract
    \/ RunAgain /\ FrameExtract

SpecExtractTwice == InitExtractTwice /\ [][NextExtractTwice]_vars

(***************************************************************************)
(* C15                                                                     *)
(***************************************************************************)

\* the file a song is saved to
SongFile(song) == sanitize_filename(song.name) \o <<46, 116, 120, 116>>

\* a step of the script keeps every file there is as it is; a pass over a
\* song whose file exists is a skip that navigates nowhere; a pass over
\* another song navigates to its URL, and creates at most the song's file,
\* and that only for a non-empty extracted text; no other step touches the
\* directory
StepKeepsFiles ==
    /\ \A f \in DOMAIN ex_fs : f \in DOMAIN ex_fs' /\ ex_fs'[f] = ex_fs[f]
    /\ ex_i' = ex_i + 1 =>
          LET song == ex_songs[ex_i + 1] IN
          /\ SongFile(song) \in DOMAIN ex_fs =>
                /\ ex_outcomes' = Append(ex_outcomes, "skipped")
                /\ ex_visited' = ex_visited
                /\ ex_lyrics' = Append(ex_lyrics, None)
                /\ ex_fs' = ex_fs
          /\ SongFile(song) \notin DOMAIN ex_fs =>
                /\ ex_visited' = Append(ex_visited, song.url)
                /\ ex_outcomes'[ex_i + 1] # "skipped"
                /\ DOMAIN ex_fs' \subseteq DOMAIN ex_fs \cup {SongFile(song)}
          /\ DOMAIN ex_fs' # DOMAIN ex_fs =>
                /\ ex_lyrics'[ex_i + 1] # None
                /\ ex_lyrics'[ex_i + 1][1] # <<>>
          /\ ex_outcomes'[ex_i + 1] = "saved" =>
                /\ SongFile(song) \notin DOMAIN ex_fs
                /\ ex_fs'[SongFile(song)] =
                      <<35, 32>> \o song.name \o <<10, 10>> \o ex_lyrics'[ex_i + 1][1]
    /\ ex_i' # ex_i + 1 => ex_fs' = ex_fs

\* the run before this one left a file for every song (each was saved or
\* skipped)
PreviousRunSavedAll ==
    /\ ex_prev # None
    /\ Len(ex_prev[1].outcomes) = Len(ex_songs)
    /\ \A k \in 1..Len(ex_songs) : ex_prev[1].outcomes[k] \in {"saved", "skipped"}

\* this run has extracted nothing and changed no file
RunDidNothing ==
    /\ ex_visited = <<>>
    /\ ex_fs = ex_prev[1].fs
    /\ \A k \in 1..Len(ex_outcomes) :
          ex_outcomes[k] = "skipped" /\ ex_lyrics[k] = None

\* C15: the extraction script never overwrites a lyrics file: a song whose
\* file exists is skipped without navigating to its URL and no existing
\* file is ever changed or removed; a file is created only for a non-empty
\* extracted text; and a run after a run that left a file for every song
\* extracts nothing and changes no file.
C15_NeverOverwrites ==
    /\ [][StepKeepsFiles]_vars
    /\ [](PreviousRunSavedAll => RunDidNothing)

\* a second run has ended after a first run that saved both songs: both
\* were skipped
C15_Witness ==
    /\ ex_run = 2
    /\ ex_pc = "done"
    /\ ex_prev[1].outcomes = <<"saved", "saved">>
    /\ ex_outcomes = <<"skipped", "skipped">>
    /\ ex_visited = <<>>

\* a song whose file an earlier run left was skipped beside a song that
\* was saved, and the old file is as it was
C15_WitnessOldFile ==
    /\ ex_run = 1
    /\ Len(ex_outcomes) = 2
    /\ ex_outcomes[1] = "skipped"
    /\ ex_outcomes[2] = "saved"
    /\ ex_fs[SongFile(ex_songs[1])] = <<111, 108, 100>>

\* a write raised and left the file that open created; the next run skips
\* the song
C15_WitnessPartial ==
    /\ ex_run = 2
    /\ ex_prev[1].outcomes = <<"error">>
    /\ ex_outcomes = <<"skipped">>
    /\ ex_fs[SongFile(ex_songs[1])] = <<>>

(***************************************************************************)
(* Specification SpecParse: parse_lyrics_file called on one lyrics file.   *)
(***************************************************************************)

InitParse ==
    /\ IdleClean /\ IdleLayout /\ IdleSections /\ IdleColumns /\ IdleDownload
    /\ IdleSlides /\ IdleExtract
    /\ pa_stem \in Stems
    /\ pa_content \in ParseContents
    /\ pa_result = None

ParseFile ==
    /\ pa_result = None
    /\ pa_result' = Some(parse_lyrics_file(pa_stem, pa_content))
    /\ UNCHANGED <<pa_stem, pa_content>>

NextParse == ParseFile /\ FrameParse

SpecParse == InitParse /\ [][NextParse]_vars

(***************************************************************************)
(* C16                                                                     *)
(***************************************************************************)

NotTitleLine(line) == ~startswith(line, <<35, 32>>)

\* the lines that do not start with '# ', each with its punctuation cleaned
CleanedLyricLines(lines) ==
    LET kept == SelectSeq(lines, NotTitleLine)
    IN  [k \in 1..Len(kept) |-> clean_punctuation(kept[k])]

\* the list without its maximal blank prefix and its maximal blank suffix
TrimBlankLines(lines) ==
    LET nonblank == {k \in 1..Len(lines) : NonBlankLine(lines[k])}
        first == CHOOSE k \in nonblank : \A j \in nonblank : k <= j
        last == CHOOSE k \in nonblank : \A j \in nonblank : j <= k
    IN  IF nonblank = {} THEN <<>> ELSE SubSeq(lines, first, last)

\* the returned list is what the given lines leave: no title line,
\* punctuation cleaned, blank lines removed at the two ends only; it neither
\* starts nor ends with a blank line
ParsedFrom(lines) ==
    LET lyrics_lines == pa_result[1].lyrics_lines IN
    /\ lyrics_lines = TrimBlankLines(CleanedLyricLines(lines))
    /\ lyrics_lines # <<>> =>
          /\ NonBlankLine(lyrics_lines[1])
          /\ NonBlankLine(lyrics_lines[Len(lyrics_lines)])

\* C16 as stated: the lyric lines parse_lyrics_file returns are the file's
\* lines that do not start with '# ', cleaned, without the blank lines at
\* the start and at the end, interior blank lines kept.
C16_TrimsBlankLinesOnly ==
    pa_result # None => ParsedFrom(str_split(pa_content, 10, <<>>))

\* C16 amended: the same of the lines of the file's content with the
\* whitespace at its two ends removed (content.strip()), so the first line
\* has lost its leading and the last line its trailing whitespace.
C16_TrimsStrippedContent ==
    pa_result # None => ParsedFrom(str_split(strip(pa_content), 10, <<>>))

\* 'a,' / '' / ' b' was parsed: the interior blank line and the indent of
\* the last line are kept
C16_Witness ==
    /\ pa_result # None
    /\ pa_result[1].lyrics_lines = << <<97>>, <<>>, <<32, 98>> >>

\* ',' / 'a,' / ' ' was parsed: the first line is blank once cleaned, and
\* only 'a' is left
C16_WitnessEnds ==
    /\ pa_result # None
    /\ pa_content = <<44, 10, 97, 44, 10, 32>>
    /\ pa_result[1].lyrics_lines = << <<97>> >>

(***************************************************************************)
(* C6                                                                      *)
(***************************************************************************)

IsPunct(c) == c = 44 \/ c = 46
NotPunct(c) == ~IsPunct(c)

\* C6: clean_punctuation is idempotent (cleaning its own result changes
\* nothing), its result holds no comma and no period, and the result is the
\* input's other characters in their original order.
C6_CleanIdempotent ==
    /\ cp_once # None =>
          /\ \A i \in 1..Len(cp_once[1]) : NotPunct(cp_once[1][i])
          /\ cp_once[1] = SelectSeq(cp_text, NotPunct)
    /\ cp_twice # None => cp_twice = cp_once

\* a text holding two commas and a period has been cleaned twice
C6_Witness ==
    /\ cp_twice # None
    /\ Cardinality({i \in 1..Len(cp_text) : cp_text[i] = 44}) >= 2
    /\ \E i \in 1..Len(cp_text) : cp_text[i] = 46

====
